---- MODULE Spec2Model ----
(***************************************************************************)
(* The daily sales ETL of daily_sales_etl.py: extract() reads a csv into a *)
(* DataFrame, transform() drops the rows with a null price and adds        *)
(* total_revenue, load() overwrites the cleaned csv and appends the rows   *)
(* whose transaction_id is not yet in the DuckDB table daily_sales.        *)
(*                                                                         *)
(* A Python value of the transaction_id column is <<"int", n>> (read_csv   *)
(* infers int64 for an all-numeric column) or <<"str", n>> (an object      *)
(* column of str).  The table declares transaction_id VARCHAR, so a stored *)
(* key and every key that fetchall() returns is a str: <<"str", n>> is the *)
(* text of n.  NaN is the missing value of a numeric column.               *)
(***************************************************************************)
EXTENDS Integers, Sequences, FiniteSets, Bags, TLC

\* ------------------------------------------------------------- bounds
NumIds == 2
NumQty == 2
MaxRows == 3
MaxRuns == 2
ConcQty == 1

\* ------------------------------------------------------------- values
NaN == <<>>

Kinds == {"int", "str"}

TransactionIds(k) == {<<k, n>> : n \in 1..NumIds}

Quantities == 1..NumQty

Prices == {NaN, <<2>>}

CsvRows(k) == [transaction_id : TransactionIds(k), quantity : Quantities, price : Prices]

SeqsUpTo(S, n) == UNION {[1..m -> S] : m \in 0..n}

\* read_csv gives one dtype to the whole transaction_id column
CsvTables == UNION {SeqsUpTo(CsvRows(k), MaxRows) : k \in Kinds}

None == [kind |-> "None", columns |-> "none", rows |-> <<>>]

DataFrame(cols, rows) == [kind |-> "DataFrame", columns |-> cols, rows |-> rows]

\* what read_csv can return: a sales table, or a table without a price column
ExtractedFrames == {DataFrame("sales", t) : t \in CsvTables} \cup {DataFrame("no_price", <<>>)}

NoFile == [exists |-> FALSE, rows |-> <<>>]

CsvFile(rows) == [exists |-> TRUE, rows |-> rows]

Runs == {1, 2}

\* ------------------------------------------------------------- transform
\* the rows with a price, last row first
DropNaPriceReversed(rows) ==
  LET kept == SelectSeq(rows, LAMBDA r : r.price # NaN)
  IN  [i \in DOMAIN kept |-> kept[Len(kept) + 1 - i]]

DropNaPrice(rows) == SelectSeq(rows, LAMBDA r : r.price # NaN)

Revenue(r) == r.quantity * r.price[1]

AddTotalRevenue(rows) ==
  [i \in DOMAIN rows |->
     [transaction_id |-> rows[i].transaction_id, quantity |-> rows[i].quantity,
      price |-> rows[i].price, total_revenue |-> Revenue(rows[i])]]

\* a transform that answers None with an empty table
TransformRaisesOnFramesOnly(d) == d.kind = "DataFrame" /\ d.columns # "sales"

TransformRaises(d) == d.kind = "None" \/ d.columns # "sales"

TransformResult(d) == DataFrame("sales", AddTotalRevenue(DropNaPrice(d.rows)))

\* ------------------------------------------------------------- the store
\* the implicit cast of INSERT into the VARCHAR column
ToVarchar(id) == <<"str", id[2]>>

ToStoreRow(r) == [r EXCEPT !.transaction_id = ToVarchar(@)]

SeqToBag(s) ==
  [x \in {s[i] : i \in DOMAIN s} |-> Cardinality({i \in DOMAIN s : s[i] = x})]

StoreKeys(tbl) == {r.transaction_id : r \in BagToSet(tbl)}

\* a table declared without PRIMARY KEY
PrimaryKeyUnchecked(tbl, rows) == TRUE

\* PRIMARY KEY: the statement is rejected as a whole when two of its rows, or
\* one of its rows and a stored row, have the same key
PrimaryKeyOk(tbl, rows) ==
  /\ \A i, j \in DOMAIN rows : i # j => ToVarchar(rows[i].transaction_id) # ToVarchar(rows[j].transaction_id)
  /\ \A i \in DOMAIN rows : ToVarchar(rows[i].transaction_id) \notin StoreKeys(tbl)

\* the table replaced by the batch instead of appended to
InsertRowsReplacing(tbl, rows) == SeqToBag([i \in DOMAIN rows |-> ToStoreRow(rows[i])])

InsertRows(tbl, rows) == tbl (+) SeqToBag([i \in DOMAIN rows |-> ToStoreRow(rows[i])])

\* the new batch with drop_duplicates("transaction_id") applied
NewDataDeduplicated(rows, existing) ==
  LET fresh == SelectSeq(rows, LAMBDA r : r.transaction_id \notin existing)
      first == {i \in DOMAIN fresh :
                  \A j \in 1..(i - 1) : fresh[j].transaction_id # fresh[i].transaction_id}
      Pick[n \in 0..Len(fresh)] ==
        IF n = 0 THEN <<>>
        ELSE IF n \in first THEN Append(Pick[n - 1], fresh[n]) ELSE Pick[n - 1]
  IN  Pick[Len(fresh)]

\* df[~df["transaction_id"].isin(existing)]: isin compares Python values
NewData(rows, existing) == SelectSeq(rows, LAMBDA r : r.transaction_id \notin existing)

\* ------------------------------------------------------------- state
VARIABLES
  mainpc,       \* position of the entry point: extract, transform, load, loading, exit
  runs,         \* how many times the entry point has been started
  df,           \* the entry point's df
  stages,       \* the stage functions the entry point has called in this run, in order
  failed,       \* the stages that logged a failure in this run
  tin,          \* the argument of the last transform() call
  prev,         \* the argument of the previous load() call, if it returned its df
  pc,           \* per load() call: its position
  ldf,          \* per load() call: its argument df
  con,          \* per load() call: its connection: none, open, closed
  existing,     \* per load() call: existing_transaction
  new_data,     \* per load() call: new_data
  exc,          \* per load() call: the statement that raised and the exception
  ret,          \* per load() call: the value returned
  path,         \* per load() call: the positions it went through
  attempted,    \* per load() call: the keys of the rows its INSERT carried
  store0,       \* per load() call: the rows of daily_sales when it was called
  file0,        \* per load() call: the output file when it was called
  store,        \* the rows of daily_sales, a bag
  tableExists,  \* whether daily_sales has been created
  file          \* the output csv file

mainVars == <<mainpc, runs, df, stages, failed, tin, prev>>

loadVars == <<pc, ldf, con, existing, new_data, exc, ret, path, attempted, store0, file0>>

storeVars == <<store, tableExists>>

vars == <<mainVars, loadVars, storeVars, file>>

NoExc == [at |-> "none", type |-> "none"]

NoPrev == [df |-> None, ok |-> FALSE]

Init ==
  /\ mainpc = "extract"
  /\ runs = 1
  /\ df = None
  /\ stages = <<>>
  /\ failed = {}
  /\ tin = None
  /\ prev = NoPrev
  /\ pc = [r \in Runs |-> "idle"]
  /\ ldf = [r \in Runs |-> None]
  /\ con = [r \in Runs |-> "none"]
  /\ existing = [r \in Runs |-> {}]
  /\ new_data = [r \in Runs |-> <<>>]
  /\ exc = [r \in Runs |-> NoExc]
  /\ ret = [r \in Runs |-> None]
  /\ path = [r \in Runs |-> <<>>]
  /\ attempted = [r \in Runs |-> {}]
  /\ store0 = [r \in Runs |-> EmptyBag]
  /\ file0 = [r \in Runs |-> NoFile]
  /\ store = EmptyBag
  /\ tableExists = FALSE
  /\ file = NoFile

\* ------------------------------------------------------------- load()
Goto(r, p) ==
  /\ pc' = [pc EXCEPT ![r] = p]
  /\ path' = [path EXCEPT ![r] = Append(@, p)]

\* except Exception as e: logging.error(...); the function then returns None
Raise(r, at, type) ==
  /\ Goto(r, "FAILED")
  /\ exc' = [exc EXCEPT ![r] = [at |-> at, type |-> type]]
  /\ ret' = [ret EXCEPT ![r] = None]

Enter(r, d) ==
  /\ pc[r] = "idle"
  /\ Goto(r, "START")
  /\ ldf' = [ldf EXCEPT ![r] = d]
  /\ store0' = [store0 EXCEPT ![r] = store]
  /\ file0' = [file0 EXCEPT ![r] = file]
  /\ UNCHANGED <<con, existing, new_data, exc, ret, attempted, storeVars, file>>

\* df.reset_index(drop=True); df.to_csv(output_file_path, index=False)
ExportCsv(r) ==
  /\ pc[r] = "START"
  /\ IF ldf[r].kind = "None"
       THEN Raise(r, "reset_index", "AttributeError") /\ UNCHANGED file
       ELSE Goto(r, "FILE_WRITTEN") /\ file' = CsvFile(ldf[r].rows) /\ UNCHANGED <<exc, ret>>
  /\ UNCHANGED <<ldf, con, existing, new_data, attempted, store0, file0, storeVars>>

\* to_csv cannot open the file, or stops part of the way through the rows
ExportCsvRaise(r) ==
  /\ pc[r] = "START"
  /\ ldf[r].kind = "DataFrame"
  /\ Raise(r, "to_csv", "OSError")
  /\ \/ UNCHANGED file
     \/ \E k \in 0..(Len(ldf[r].rows) - 1) : file' = CsvFile(SubSeq(ldf[r].rows, 1, k))
  /\ UNCHANGED <<ldf, con, existing, new_data, attempted, store0, file0, storeVars>>

\* con = duckdb.connect(duckdb_file_path)
Connect(r) ==
  /\ pc[r] = "FILE_WRITTEN"
  /\ Goto(r, "CONNECTED")
  /\ con' = [con EXCEPT ![r] = "open"]
  /\ UNCHANGED <<ldf, existing, new_data, exc, ret, attempted, store0, file0, storeVars, file>>

\* CREATE TABLE IF NOT EXISTS daily_sales (...)
EnsureSchema(r) ==
  /\ pc[r] = "CONNECTED"
  /\ Goto(r, "STORE_SCHEMA_ENSURED")
  /\ tableExists' = TRUE
  /\ UNCHANGED <<ldf, con, existing, new_data, exc, ret, attempted, store0, file0, store, file>>

\* SELECT transaction_id FROM daily_sales; new_data = df[~df[...].isin(existing)]
ReadExistingKeys(r) ==
  /\ pc[r] = "STORE_SCHEMA_ENSURED"
  /\ Goto(r, "DEDUP_COMPUTED")
  /\ existing' = [existing EXCEPT ![r] = StoreKeys(store)]
  /\ new_data' = [new_data EXCEPT ![r] = NewData(ldf[r].rows, StoreKeys(store))]
  /\ UNCHANGED <<ldf, con, exc, ret, attempted, store0, file0, storeVars, file>>

\* the rows inserted one statement each: the rows before the first rejected
\* one stay in the table
InsertNewDataRowByRow(r) ==
  /\ pc[r] = "DEDUP_COMPUTED"
  /\ new_data[r] # <<>>
  /\ attempted' = [attempted EXCEPT ![r] =
                     {ToVarchar(new_data[r][i].transaction_id) : i \in DOMAIN new_data[r]}]
  /\ LET good == {k \in 0..Len(new_data[r]) : PrimaryKeyOk(store, SubSeq(new_data[r], 1, k))}
         n == CHOOSE k \in good : \A m \in good : m <= k
     IN  /\ store' = IF n = 0 THEN store ELSE InsertRows(store, SubSeq(new_data[r], 1, n))
         /\ IF n = Len(new_data[r])
              THEN Goto(r, "MERGED") /\ UNCHANGED <<exc, ret>>
              ELSE Raise(r, "insert", "ConstraintException")
  /\ UNCHANGED <<ldf, con, existing, new_data, store0, file0, tableExists, file>>

\* INSERT OR IGNORE: the rows whose key the table holds by now are left out
InsertNewDataOrIgnore(r) ==
  /\ pc[r] = "DEDUP_COMPUTED"
  /\ new_data[r] # <<>>
  /\ LET rows == SelectSeq(new_data[r], LAMBDA x : ToVarchar(x.transaction_id) \notin StoreKeys(store))
     IN  /\ attempted' = [attempted EXCEPT ![r] =
                            {ToVarchar(rows[i].transaction_id) : i \in DOMAIN rows}]
         /\ IF PrimaryKeyOk(store, rows)
              THEN /\ Goto(r, "MERGED")
                   /\ store' = IF rows = <<>> THEN store ELSE InsertRows(store, rows)
                   /\ UNCHANGED <<exc, ret>>
              ELSE Raise(r, "insert", "ConstraintException") /\ UNCHANGED store
  /\ UNCHANGED <<ldf, con, existing, new_data, store0, file0, tableExists, file>>

\* if not new_data.empty: INSERT INTO daily_sales SELECT * FROM new_data
InsertNewData(r) ==
  /\ pc[r] = "DEDUP_COMPUTED"
  /\ new_data[r] # <<>>
  /\ attempted' = [attempted EXCEPT ![r] =
                     {ToVarchar(new_data[r][i].transaction_id) : i \in DOMAIN new_data[r]}]
  /\ IF PrimaryKeyOk(store, new_data[r])
       THEN Goto(r, "MERGED") /\ store' = InsertRows(store, new_data[r]) /\ UNCHANGED <<exc, ret>>
       ELSE Raise(r, "insert", "ConstraintException") /\ UNCHANGED store
  /\ UNCHANGED <<ldf, con, existing, new_data, store0, file0, tableExists, file>>

\* else: logging.info("There is no new data to be save.")
NoNewData(r) ==
  /\ pc[r] = "DEDUP_COMPUTED"
  /\ new_data[r] = <<>>
  /\ Goto(r, "NO_OP")
  /\ UNCHANGED <<ldf, con, existing, new_data, exc, ret, attempted, store0, file0, storeVars, file>>

\* con.close(); return df
Close(r) ==
  /\ pc[r] \in {"MERGED", "NO_OP"}
  /\ Goto(r, "DONE")
  /\ con' = [con EXCEPT ![r] = "closed"]
  /\ ret' = [ret EXCEPT ![r] = ldf[r]]
  /\ UNCHANGED <<ldf, existing, new_data, exc, attempted, store0, file0, storeVars, file>>

StoreStatement(p) ==
  CASE p = "FILE_WRITTEN" -> "connect"
    [] p = "CONNECTED" -> "create"
    [] p = "STORE_SCHEMA_ENSURED" -> "select"
    [] OTHER -> "insert"

\* the database file cannot be opened, read or written: the statement raises
\* and changes nothing
StoreRaise(r) ==
  /\ \/ pc[r] \in {"FILE_WRITTEN", "CONNECTED", "STORE_SCHEMA_ENSURED"}
     \/ pc[r] = "DEDUP_COMPUTED" /\ new_data[r] # <<>>
  /\ Raise(r, StoreStatement(pc[r]), "IOException")
  /\ UNCHANGED <<ldf, con, existing, new_data, attempted, store0, file0, storeVars, file>>

LoadStep(r) ==
  \/ ExportCsv(r)
  \/ ExportCsvRaise(r)
  \/ Connect(r)
  \/ EnsureSchema(r)
  \/ ReadExistingKeys(r)
  \/ InsertNewData(r)
  \/ NoNewData(r)
  \/ Close(r)
  \/ StoreRaise(r)

\* ------------------------------------------------------------- entry point
\* df = extract(file_path), read_csv succeeding
Extract ==
  /\ mainpc = "extract"
  /\ \E d \in ExtractedFrames : df' = d
  /\ mainpc' = "transform"
  /\ stages' = Append(stages, "extract")
  /\ UNCHANGED <<runs, failed, tin, prev, loadVars, storeVars, file>>

\* df = extract(file_path), read_csv raising: the error is logged, None returned
ExtractRaise ==
  /\ mainpc = "extract"
  /\ df' = None
  /\ mainpc' = "transform"
  /\ stages' = Append(stages, "extract")
  /\ failed' = failed \cup {"extract"}
  /\ UNCHANGED <<runs, tin, prev, loadVars, storeVars, file>>

\* df = transform(df)
Transform ==
  /\ mainpc = "transform"
  /\ tin' = df
  /\ IF TransformRaises(df)
       THEN df' = None /\ failed' = failed \cup {"transform"}
       ELSE df' = TransformResult(df) /\ UNCHANGED failed
  /\ mainpc' = "load"
  /\ stages' = Append(stages, "transform")
  /\ UNCHANGED <<runs, prev, loadVars, storeVars, file>>

\* df = load(df, output_file_path): the call
CallLoad ==
  /\ mainpc = "load"
  /\ Enter(1, df)
  /\ mainpc' = "loading"
  /\ stages' = Append(stages, "load")
  /\ tin' = None
  /\ UNCHANGED <<runs, df, failed, prev>>

\* the statements of load()
Load ==
  /\ mainpc = "loading"
  /\ LoadStep(1)
  /\ UNCHANGED mainVars

\* df = load(df, output_file_path): the return
ReturnLoad ==
  /\ mainpc = "loading"
  /\ pc[1] \in {"DONE", "FAILED"}
  /\ df' = ret[1]
  /\ failed' = IF pc[1] = "FAILED" THEN failed \cup {"load"} ELSE failed
  /\ prev' = IF pc[1] = "DONE" THEN [df |-> ldf[1], ok |-> TRUE] ELSE NoPrev
  /\ mainpc' = "exit"
  /\ pc' = [pc EXCEPT ![1] = "idle"]
  /\ UNCHANGED <<runs, stages, tin, ldf, con, existing, new_data, exc, ret, path,
                 attempted, store0, file0, storeVars, file>>

\* the script is started again; the store and the output file are what is kept
Rerun ==
  /\ mainpc = "exit"
  /\ runs < MaxRuns
  /\ runs' = runs + 1
  /\ mainpc' = "extract"
  /\ df' = None
  /\ stages' = <<>>
  /\ failed' = {}
  /\ ldf' = [ldf EXCEPT ![1] = None]
  /\ con' = [con EXCEPT ![1] = "none"]
  /\ existing' = [existing EXCEPT ![1] = {}]
  /\ new_data' = [new_data EXCEPT ![1] = <<>>]
  /\ exc' = [exc EXCEPT ![1] = NoExc]
  /\ ret' = [ret EXCEPT ![1] = None]
  /\ path' = [path EXCEPT ![1] = <<>>]
  /\ attempted' = [attempted EXCEPT ![1] = {}]
  /\ store0' = [store0 EXCEPT ![1] = EmptyBag]
  /\ file0' = [file0 EXCEPT ![1] = NoFile]
  /\ UNCHANGED <<tin, prev, pc, storeVars, file>>

Next ==
  \/ Extract
  \/ ExtractRaise
  \/ Transform
  \/ CallLoad
  \/ Load
  \/ ReturnLoad
  \/ Rerun

Spec == Init /\ [][Next]_vars

\* ------------------------------------------------------------- two load() calls at once
\* what a caller passes to load(): a transformed table
LoadFrames == {TransformResult(DataFrame("sales", t)) : t \in CsvTables}

\* the tables the two concurrent callers draw from
ConcFrames ==
  {d \in LoadFrames : \A i \in DOMAIN d.rows : d.rows[i].quantity <= ConcQty}

CallLoadConc(r) ==
  /\ \E d \in ConcFrames : Enter(r, d)
  /\ UNCHANGED mainVars

LoadConc(r) ==
  /\ LoadStep(r)
  /\ UNCHANGED mainVars

NextConc == \E r \in Runs : CallLoadConc(r) \/ LoadConc(r)

SpecConc == Init /\ [][NextConc]_vars

\* ------------------------------------------------------------- properties
KeyOf(r) == ToVarchar(r.transaction_id)

KeysOf(rows) == {KeyOf(rows[i]) : i \in DOMAIN rows}

IdsDistinct(rows) ==
  \A i, j \in DOMAIN rows : i # j => rows[i].transaction_id # rows[j].transaction_id

OneRowPerKey(tbl) ==
  \A x \in BagToSet(tbl) :
    /\ CopiesIn(x, tbl) = 1
    /\ \A y \in BagToSet(tbl) : x.transaction_id = y.transaction_id => x = y

KeepsRows(a, b) == \A x \in BagToSet(a) : CopiesIn(x, b) >= CopiesIn(x, a)

\* the run raised nothing that the environment (disk, database file) caused
NoIoFault(r) == exc[r].type \notin {"OSError", "IOException"}

Returning(r) == pc[r] \in {"DONE", "FAILED"}

\* C1: in every state of daily_sales that runs of load() reach, no two stored
\* rows share a transaction_id.
C1_UniqueKeys == OneRowPerKey(store)

\* a second run's INSERT carried a stored key and was rejected
C1_Witness ==
  /\ runs = 2
  /\ pc[1] = "FAILED"
  /\ exc[1].type = "ConstraintException"
  /\ attempted[1] \cap StoreKeys(store) # {}

\* C2: with prior keys S and a batch of pairwise distinct ids B, after load()
\* (nothing in the environment failing) the store's keys are S union B, one
\* row per key.
C2_KeysAreUnion ==
  \A r \in Runs :
    (Returning(r) /\ NoIoFault(r) /\ ldf[r].kind = "DataFrame" /\ IdsDistinct(ldf[r].rows))
      => /\ StoreKeys(store) = StoreKeys(store0[r]) \cup KeysOf(ldf[r].rows)
         /\ OneRowPerKey(store)

\* C3: a load() of the very table that the previous, successful load() was
\* given finds no new data, takes the no-op branch and leaves the store as it
\* was, with each id of the table stored once.
C3_SecondRunNoOp ==
  (/\ prev.ok
   /\ ldf[1].kind = "DataFrame"
   /\ prev.df = ldf[1]
   /\ pc[1] \in {"DEDUP_COMPUTED", "MERGED", "NO_OP", "DONE", "FAILED"}
   /\ NoIoFault(1))
    => /\ new_data[1] = <<>>
       /\ pc[1] \notin {"MERGED", "FAILED"}
       /\ store = store0[1]
       /\ \A k \in KeysOf(ldf[1].rows) :
            Cardinality({x \in BagToSet(store) : x.transaction_id = k}) = 1

\* C4: every row that daily_sales held when load() was called is still there,
\* with the same values, at every later point of the call.
C4_AppendOnly == \A r \in Runs : pc[r] # "idle" => KeepsRows(store0[r], store)

\* the batch carried a stored key with another quantity, and rows were appended
C4_Witness ==
  /\ pc[1] = "DONE"
  /\ store # store0[1]
  /\ \E i \in DOMAIN ldf[1].rows : \E x \in BagToSet(store0[1]) :
       /\ KeyOf(ldf[1].rows[i]) = x.transaction_id
       /\ ldf[1].rows[i].quantity # x.quantity

NonNull(rows) == {i \in DOMAIN rows : rows[i].price # NaN}

\* the position among the survivors of row i of the input
Rank(rows, i) == Cardinality({j \in NonNull(rows) : j <= i})

InputColumns(r) == [transaction_id |-> r.transaction_id, quantity |-> r.quantity, price |-> r.price]

\* C5: transform() of a table with price and quantity columns returns the rows
\* with a non-null price, each once and in their order, and nothing else.
C5_TransformFilters ==
  (mainpc = "load" /\ tin.kind = "DataFrame" /\ tin.columns = "sales")
    => /\ df.kind = "DataFrame"
       /\ \A k \in DOMAIN df.rows : df.rows[k].price # NaN
       /\ Len(df.rows) = Cardinality(NonNull(tin.rows))
       /\ \A i \in NonNull(tin.rows) : InputColumns(df.rows[Rank(tin.rows, i)]) = tin.rows[i]

\* a null price between two different rows that survive
C5_Witness ==
  /\ mainpc = "load"
  /\ Len(tin.rows) = 3
  /\ NonNull(tin.rows) = {1, 3}
  /\ tin.rows[1] # tin.rows[3]
  /\ Len(df.rows) = 2

\* C6: when load() returns, a connection it opened has been closed.
C6_ConnectionClosed == \A r \in Runs : Returning(r) => con[r] # "open"

Pipeline == <<"extract", "transform", "load">>

\* C7: a stage that fails returns None to the entry point, which goes on to
\* call the next stage with it: the stages are called once each, in order; a
\* failed extract makes transform fail and then load fail, and the run then
\* leaves the output file and the store as they were.
C7_Cascade ==
  /\ \E n \in 0..3 : stages = SubSeq(Pipeline, 1, n)
  /\ mainpc = "exit" => stages = Pipeline
  /\ ("extract" \in failed /\ mainpc = "transform") => df = None
  /\ ("transform" \in failed /\ mainpc = "load") => df = None
  /\ ("load" \in failed /\ mainpc = "exit") => df = None
  /\ ("extract" \in failed /\ mainpc \in {"load", "loading", "exit"}) => "transform" \in failed
  /\ ("extract" \in failed /\ mainpc = "exit") =>
        /\ "load" \in failed
        /\ store = store0[1]
        /\ file = file0[1]

\* a run whose extract failed has ended, after a run that stored rows
C7_Witness ==
  /\ mainpc = "exit"
  /\ failed = {"extract", "transform", "load"}
  /\ store # EmptyBag
  /\ file.exists /\ file.rows # <<>>

StepOrder == <<"START", "FILE_WRITTEN", "CONNECTED", "STORE_SCHEMA_ENSURED", "DEDUP_COMPUTED">>

IsPrefix(s, t) == Len(s) <= Len(t) /\ s = SubSeq(t, 1, Len(s))

Front(s) == SubSeq(s, 1, Len(s) - 1)

\* C8: a load() call goes through its steps in the one order, an exception
\* ends it there; after a failure of a store statement the output file holds
\* the whole input table and the store holds what it held, and after a failure
\* of the file export the store has not been touched.
C8_StepOrder ==
  \A r \in Runs :
    /\ \/ IsPrefix(path[r], StepOrder)
       \/ \E b \in {"MERGED", "NO_OP"} : IsPrefix(path[r], StepOrder \o <<b, "DONE">>)
       \/ /\ path[r] # <<>>
          /\ path[r][Len(path[r])] = "FAILED"
          /\ Front(path[r]) # <<>>
          /\ IsPrefix(Front(path[r]), StepOrder)
    /\ (pc[r] = "FAILED" /\ exc[r].at \in {"connect", "create", "select", "insert"})
         => /\ file = CsvFile(ldf[r].rows)
            /\ store = store0[r]
    /\ (pc[r] = "FAILED" /\ exc[r].at \in {"reset_index", "to_csv"})
         => /\ store = store0[r]
            /\ con[r] = "none"

\* an INSERT of a new row and a stored key was rejected, the file was written
C8_Witness ==
  /\ pc[1] = "FAILED"
  /\ exc[1].at = "insert"
  /\ exc[1].type = "ConstraintException"
  /\ store # EmptyBag
  /\ attempted[1] \ StoreKeys(store) # {}
  /\ file # file0[1]

PastDedup(r) ==
  \/ pc[r] \in {"DEDUP_COMPUTED", "MERGED", "NO_OP", "DONE"}
  \/ pc[r] = "FAILED" /\ exc[r].at = "insert"

InsertTried(r) ==
  \/ "MERGED" \in {path[r][i] : i \in DOMAIN path[r]}
  \/ pc[r] = "FAILED" /\ exc[r].at = "insert" /\ exc[r].type = "ConstraintException"

DupInBatch(r) ==
  \E i, j \in DOMAIN ldf[r].rows :
    /\ i # j
    /\ ldf[r].rows[i].transaction_id = ldf[r].rows[j].transaction_id
    /\ KeyOf(ldf[r].rows[i]) \notin StoreKeys(store0[r])

Count(rows, id) == Cardinality({i \in DOMAIN rows : rows[i].transaction_id = id})

\* C10: rows of one batch with the same id, new to the store, all go into the
\* new batch; the INSERT is rejected as a whole, the store keeps exactly the
\* rows it had and the output file holds every input row.
C10_DupBatchRejected ==
  (ldf[1].kind = "DataFrame" /\ DupInBatch(1))
    => /\ PastDedup(1) =>
            \A i \in DOMAIN ldf[1].rows :
              KeyOf(ldf[1].rows[i]) \notin StoreKeys(store0[1])
                => Count(new_data[1], ldf[1].rows[i].transaction_id)
                     = Count(ldf[1].rows, ldf[1].rows[i].transaction_id)
       /\ pc[1] \notin {"NO_OP", "MERGED", "DONE"}
       /\ store = store0[1]
       /\ (pc[1] = "FAILED" /\ exc[1].at = "insert") => file = CsvFile(ldf[1].rows)

\* the rejected batch also had a row with an id of its own
C10_Witness ==
  /\ DupInBatch(1)
  /\ pc[1] = "FAILED"
  /\ exc[1].type = "ConstraintException"
  /\ Len(ldf[1].rows) = 3
  /\ Cardinality(attempted[1]) = 2
  /\ attempted[1] \cap StoreKeys(store) = {}
  /\ file = CsvFile(ldf[1].rows)

====
